---- MODULE Spec2Model ----
(***************************************************************************)
(* The adversarial training loop of gans.ipynb (cell 28), the two train    *)
(* steps, the two loss functions and evaluate.                             *)
(*                                                                         *)
(* A network is a record                                                   *)
(*   training : the Module.training flag (train()/eval())                  *)
(*   params   : version of the parameter tensors (number of optimizer      *)
(*              steps that changed them)                                   *)
(*   grad     : the losses whose gradient is accumulated in the .grad      *)
(*              buffers ({} after zero_grad)                               *)
(*   applied  : the content of the .grad buffers at the last optimizer     *)
(*              step that changed the parameters                           *)
(*   stats    : version of the BatchNorm1d running statistics              *)
(*              (num_batches_tracked: one more per forward pass made in    *)
(*              training mode)                                             *)
(* An image is a record [src, idx]: src is "real" (dataset row idx),       *)
(* "gen" (output of the generator, row idx of its noise batch) or "noise"  *)
(* (torch.randn_like, not produced by a network).                          *)
(***************************************************************************)
EXTENDS Integers, Sequences, FiniteSets, TLC

\* ---------------------------------------------------------------- constants
NUM_EPOCHS == 10
batch_size == 64
EVAL_BATCH_SIZE == 2048

\* ------------------------------------------------------------------- bounds
\* Largest dataset length explored (MNIST itself has 60000 rows).
MaxDataLen == 130
\* Largest batch handed to a function called on its own.
MaxBatch == 2
\* Most batches of a dataloader handed to evaluate called on its own.
MaxEvalBatches == 2
\* Bits of precision of the tensors' floating-point format (float32 has 24).
MantBits == 2

\* Dataset lengths: at least 2 rows, so that no BatchNorm1d layer in
\* training mode is handed a single row (torch raises on that).
DataLens == 2..MaxDataLen

VARIABLES
    pc,           \* position in cell 28
    dataLen,      \* len(mnist_data)
    epoch,        \* the epoch variable of the outer for loop
    batchStart,   \* rows of the dataset the minibatch iterator has yielded
    real_images,  \* the minibatch of the inner for loop
    fake_images,  \* generator(noise) of line 449
    nets,         \* "D" |-> discriminator, "G" |-> generator
    rng,          \* rows of standard-normal noise drawn since the seed
    lossCount,    \* number of losses computed so far (names a loss)
    updates,      \* log of the optimizer steps taken: "D" / "G"
    evals,        \* number of evaluate calls made
    dstep,        \* locals of the last discriminator_train_step
    call,         \* last stand-alone function call: [fn, args, ret]
    ev,           \* locals of an evaluate call in progress
    seen          \* how often each prediction value was handed to evaluate

vars == <<pc, dataLen, epoch, batchStart, real_images, fake_images, nets, rng,
          lossCount, updates, evals, dstep, call, ev, seen>>

Min(a, b) == IF a < b THEN a ELSE b

\* ----------------------------------------------------------------- networks
\* torch.nn.Module is constructed in training mode.
create_network == [training |-> TRUE, params |-> 0, grad |-> {}, applied |-> {},
                   stats |-> 0]

\* Mutant: the discriminator's optimizer built over both networks' parameters.
discriminator_optimizer_both == {"D", "G"}

\* torch.optim.Adam(discriminator.parameters(), ...) / (generator.parameters(), ...)
discriminator_optimizer == {"D"}
generator_optimizer == {"G"}

\* Module.train() / Module.eval()
SetMode(ns, n, flag) == [ns EXCEPT ![n].training = flag]

\* A forward pass through network n: BatchNorm1d updates its running
\* statistics exactly when the module is in training mode.
Forward(ns, n) ==
    IF ns[n].training THEN [ns EXCEPT ![n].stats = @ + 1] ELSE ns

\* optimizer.zero_grad()
zero_grad(ns, optimizer) ==
    [n \in DOMAIN ns |-> IF n \in optimizer THEN [ns[n] EXCEPT !.grad = {}] ELSE ns[n]]

\* loss.backward(): the gradient is accumulated into every network of the
\* loss's graph.
backward(ns, graph, loss) ==
    [n \in DOMAIN ns |->
        IF n \in graph THEN [ns[n] EXCEPT !.grad = @ \cup {loss}] ELSE ns[n]]

\* optimizer.step(): changes the parameters the optimizer was built over,
\* those with a gradient.
step(ns, optimizer) ==
    [n \in DOMAIN ns |->
        IF n \in optimizer /\ ns[n].grad # {}
        THEN [ns[n] EXCEPT !.params = @ + 1, !.applied = ns[n].grad]
        ELSE ns[n]]

\* ------------------------------------------------------------------ batches
\* DataLoader(mnist_data, batch_size=b) without shuffle and without
\* drop_last: rows start+1 .. min(start+b, len).
Minibatch(start, b, len) ==
    [i \in 1..(Min(start + b, len) - start) |-> [src |-> "real", idx |-> start + i]]

\* generator(torch.randn(n, NOISE_SIZE)) : n generated images
Generated(n) == [i \in 1..n |-> [src |-> "gen", idx |-> i]]

\* torch.randn_like(real_images) : n images of plain noise
Noise(n) == [i \in 1..n |-> [src |-> "noise", idx |-> i]]

\* The networks a batch's autograd graph reaches.
GraphOf(images) ==
    IF \E i \in DOMAIN images : images[i].src = "gen" THEN {"G"} ELSE {}

\* torch.ones(n) / torch.zeros(n)
ones(n) == [i \in 1..n |-> 1]
zeros(n) == [i \in 1..n |-> 0]

\* -------------------------------------------------------------- train steps
\* Mutant: the labels built fake-first (zeros, then ones).
discriminator_train_step_swapped(ns, discriminator, reals, fakes, optimizer, id) ==
    LET ns1 == zero_grad(ns, optimizer)
        images == reals \o fakes
        labels == zeros(Len(fakes)) \o ones(Len(reals))
        ns2 == Forward(ns1, discriminator)
        predictions == [i \in 1..Len(images) |-> [pred_of |-> images[i]]]
        loss == <<"discriminator_loss_fn", id>>
        ns3 == backward(ns2, {discriminator} \cup GraphOf(images), loss)
        ns4 == step(ns3, optimizer)
    IN  [nets |-> ns4, images |-> images, labels |-> labels,
         predictions |-> predictions, loss |-> loss]

\* discriminator_train_step(discriminator, real_images, fake_images, optimizer).
\* id names the loss computed.  The prediction for an image is the term
\* [pred_of |-> image]; the loss pairs predictions[i] with labels[i].
discriminator_train_step(ns, discriminator, reals, fakes, optimizer, id) ==
    LET ns1 == zero_grad(ns, optimizer)
        images == reals \o fakes
        labels == ones(Len(reals)) \o zeros(Len(fakes))
        ns2 == Forward(ns1, discriminator)
        predictions == [i \in 1..Len(images) |-> [pred_of |-> images[i]]]
        loss == <<"discriminator_loss_fn", id>>
        ns3 == backward(ns2, {discriminator} \cup GraphOf(images), loss)
        ns4 == step(ns3, optimizer)
    IN  [nets |-> ns4, images |-> images, labels |-> labels,
         predictions |-> predictions, loss |-> loss]

\* Mutant: generator_optimizer.zero_grad() left out.
generator_train_step_no_zero_grad(ns, generator, discriminator, bs, gopt, dopt, id) ==
    LET ns2 == zero_grad(ns, dopt)
        generated_images == Generated(bs)
        ns3 == Forward(ns2, generator)
        ns4 == Forward(ns3, discriminator)
        loss == <<"generator_loss_fn", id>>
        ns5 == backward(ns4, {discriminator} \cup GraphOf(generated_images), loss)
        ns6 == step(ns5, gopt)
    IN  [nets |-> ns6, drawn |-> bs, loss |-> loss]

\* generator_train_step(generator, discriminator, batch_size,
\*                      generator_optimizer, discriminator_optimizer)
generator_train_step(ns, generator, discriminator, bs, gopt, dopt, id) ==
    LET ns1 == zero_grad(ns, gopt)
        ns2 == zero_grad(ns1, dopt)
        generated_images == Generated(bs)
        ns3 == Forward(ns2, generator)
        ns4 == Forward(ns3, discriminator)
        loss == <<"generator_loss_fn", id>>
        ns5 == backward(ns4, {discriminator} \cup GraphOf(generated_images), loss)
        ns6 == step(ns5, gopt)
    IN  [nets |-> ns6, drawn |-> bs, loss |-> loss]

\* ----------------------------------------------------------------- evaluate
\* The batch lengths DataLoader(mnist_data, batch_size=b) yields.
RECURSIVE BatchLens(_, _)
BatchLens(len, b) ==
    IF len <= 0 THEN <<>> ELSE <<Min(len, b)>> \o BatchLens(len - b, b)

\* What evaluate does to the networks and to the random number generator:
\* per batch, discriminator(batch), torch.randn(len(batch), NOISE_SIZE),
\* generator(noise), discriminator(generated).
RECURSIVE evaluate_effect(_, _, _, _, _)
evaluate_effect(ns, r, generator, discriminator, lens) ==
    IF lens = <<>> THEN [nets |-> ns, rng |-> r]
    ELSE LET ns1 == Forward(ns, discriminator)
             ns2 == Forward(ns1, generator)
             ns3 == Forward(ns2, discriminator)
         IN  evaluate_effect(ns3, r + Head(lens), generator, discriminator, Tail(lens))

\* ------------------------------------------------------- float arithmetic
\* Tensors are float32 (line 68; torch's default dtype).  A number is an
\* integer count of the smallest step of the format; a float has MantBits
\* significant bits.  Python scalars are doubles: any count of steps.
RECURSIVE Pow2(_)
Pow2(n) == IF n <= 0 THEN 1 ELSE 2 * Pow2(n - 1)

FineBits == MantBits + 2
One == Pow2(FineBits)
Half == One \div 2

RECURSIVE Exponent(_)
Exponent(v) == IF v < 2 THEN 0 ELSE 1 + Exponent(v \div 2)

\* Distance between neighbouring floats around v >= 0.
Spacing(v) ==
    IF v < Pow2(MantBits) THEN 1 ELSE Pow2(Exponent(v) - MantBits + 1)

IsFloat(v) == v % Spacing(v) = 0

\* Round to nearest float, ties to even.
Round(v) ==
    LET sp == Spacing(v)
        lo == v - (v % sp)
        hi == lo + sp
    IN  IF v - lo < hi - v THEN lo
        ELSE IF v - lo > hi - v THEN hi
        ELSE IF (lo \div sp) % 2 = 0 THEN lo ELSE hi

Abs(x) == IF x < 0 THEN -x ELSE x

\* The floats of [0, 1], the prediction values used in batches, and the
\* epsilons (Python doubles) in (0, 1].
Floats01 == {v \in 0..One : IsFloat(v)}
PredVals == {0, Half, One}
EpsVals == 1..One

\* ---------------------------------------------------------- loss functions
\* Mutant: the epsilon left out of the logarithm's argument.
discriminator_log_arg_no_eps(p, l, epsilon) ==
    Round(One - Round(Abs(p - l)))

\* epsilon + 1 - torch.abs(predictions - labels), elementwise: epsilon + 1
\* is a Python double, rounded to float32 when the tensor is subtracted.
discriminator_log_arg(p, l, epsilon) ==
    Round(Round(epsilon + One) - Round(Abs(p - l)))

\* epsilon + predictions, elementwise.
generator_log_arg(p, epsilon) ==
    Round(Round(epsilon) + p)

\* -torch.mean(torch.log(epsilon + 1 - torch.abs(predictions - labels))) + epsilon
\* The value is -mean(log(a) for a in neg_mean_log) + plus.
discriminator_loss_fn(predictions, labels, epsilon) ==
    [neg_mean_log |-> [i \in 1..Len(predictions) |->
                          discriminator_log_arg(predictions[i], labels[i], epsilon)],
     plus |-> epsilon]

\* -torch.mean(torch.log(epsilon + predictions))
generator_loss_fn(predictions, epsilon) ==
    [neg_mean_log |-> [i \in 1..Len(predictions) |->
                          generator_log_arg(predictions[i], epsilon)],
     plus |-> 0]

\* --------------------------------------------------- evaluate's accuracies
\* (real_preds > 0.5).sum()
CorrectOnReal(preds) == Cardinality({i \in 1..Len(preds) : preds[i] > Half})

\* Mutant: a prediction of exactly 0.5 counted as fake.
CorrectOnGenerated_inclusive(preds) ==
    Cardinality({i \in 1..Len(preds) : preds[i] <= Half})

\* (generated_preds < 0.5).sum()
CorrectOnGenerated(preds) == Cardinality({i \in 1..Len(preds) : preds[i] < Half})

\* Rows of noise drawn for a batch: torch.randn(len(batch), NOISE_SIZE)
NoiseRows(batch_len) == batch_len

\* The body of evaluate's loop, on the predictions of one batch.
evaluate_batch(acc, real_preds, generated_preds) ==
    [total_samples |-> acc.total_samples + Len(real_preds),
     correct_on_real_images |->
         acc.correct_on_real_images + CorrectOnReal(real_preds),
     correct_on_generated_images |->
         acc.correct_on_generated_images + CorrectOnGenerated(generated_preds),
     batches |-> acc.batches + 1]

\* real_correct_acc, generated_correct_acc: each a fraction <<num, den>>.
evaluate_return(acc) ==
    [real_correct_acc |-> <<acc.correct_on_real_images, acc.total_samples>>,
     generated_correct_acc |-> <<acc.correct_on_generated_images, acc.total_samples>>]

NoEval == [total_samples |-> 0, correct_on_real_images |-> 0,
           correct_on_generated_images |-> 0, batches |-> 0]
NoneSeen == [k \in {"real", "generated"} |-> [v \in PredVals |-> 0]]

\* ------------------------------------------------------- the training loop
NoStep == [images |-> <<>>, labels |-> <<>>, predictions |-> <<>>, loss |-> <<>>]
NoCall == [fn |-> "none"]

\* The state after lines 425-437: both networks constructed, seeded.
Init ==
    /\ pc = "epoch_head"
    /\ dataLen \in DataLens
    /\ epoch = 0
    /\ batchStart = 0
    /\ real_images = <<>>
    /\ fake_images = <<>>
    /\ nets = [n \in {"D", "G"} |-> create_network]
    /\ rng = 0
    /\ lossCount = 0
    /\ updates = <<>>
    /\ evals = 0
    /\ dstep = NoStep
    /\ call = NoCall
    /\ ev = NoEval
    /\ seen = NoneSeen

\* for epoch in range(NUM_EPOCHS): a new DataLoader iterator per epoch.
EpochHead ==
    /\ pc = "epoch_head"
    /\ IF epoch < NUM_EPOCHS
       THEN /\ pc' = "batch_head"
            /\ batchStart' = 0
       ELSE /\ pc' = "done"
            /\ UNCHANGED batchStart
    /\ UNCHANGED <<dataLen, epoch, real_images, fake_images, nets, rng, lossCount,
                   updates, evals, dstep, call, ev, seen>>

\* for real_images in DataLoader(mnist_data, batch_size=batch_size)
BatchHead ==
    /\ pc = "batch_head"
    /\ IF batchStart < dataLen
       THEN /\ real_images' = Minibatch(batchStart, batch_size, dataLen)
            /\ batchStart' = Min(batchStart + batch_size, dataLen)
            /\ pc' = "d_modes"
       ELSE /\ pc' = "evaluate"
            /\ UNCHANGED <<real_images, batchStart>>
    /\ UNCHANGED <<dataLen, epoch, fake_images, nets, rng, lossCount, updates,
                   evals, dstep, call, ev, seen>>

\* Mutant: generator.eval() left out.
DiscriminatorModes_no_eval(ns) == SetMode(ns, "D", TRUE)

\* discriminator.train(); generator.eval()
DiscriminatorModes(ns) == SetMode(SetMode(ns, "D", TRUE), "G", FALSE)

SetDiscriminatorModes ==
    /\ pc = "d_modes"
    /\ nets' = DiscriminatorModes(nets)
    /\ pc' = "gen_fake"
    /\ UNCHANGED <<dataLen, epoch, batchStart, real_images, fake_images, rng,
                   lossCount, updates, evals, dstep, call, ev, seen>>

\* noise = torch.randn(batch_size, NOISE_SIZE); fake_images = generator(noise)
GenerateFake ==
    /\ pc = "gen_fake"
    /\ rng' = rng + batch_size
    /\ nets' = Forward(nets, "G")
    /\ fake_images' = Generated(batch_size)
    /\ pc' = "d_step"
    /\ UNCHANGED <<dataLen, epoch, batchStart, real_images, lossCount, updates,
                   evals, dstep, call, ev, seen>>

\* Mutant: two discriminator steps per minibatch.
DiscriminatorTrainStep_twice ==
    /\ pc = "d_step"
    /\ LET r1 == discriminator_train_step(nets, "D", real_images, fake_images,
                                          discriminator_optimizer, lossCount + 1)
           r == discriminator_train_step(r1.nets, "D", real_images, fake_images,
                                         discriminator_optimizer, lossCount + 2)
       IN  /\ nets' = r.nets
           /\ dstep' = [images |-> r.images, labels |-> r.labels,
                        predictions |-> r.predictions, loss |-> r.loss]
    /\ lossCount' = lossCount + 2
    /\ updates' = updates \o <<"D", "D">>
    /\ pc' = "g_modes"
    /\ UNCHANGED <<dataLen, epoch, batchStart, real_images, fake_images, rng,
                   evals, call, ev, seen>>

\* discriminator_train_step(discriminator, real_images, fake_images,
\*                          discriminator_optimizer)
DiscriminatorTrainStep ==
    /\ pc = "d_step"
    /\ LET r == discriminator_train_step(nets, "D", real_images, fake_images,
                                         discriminator_optimizer, lossCount + 1)
       IN  /\ nets' = r.nets
           /\ dstep' = [images |-> r.images, labels |-> r.labels,
                        predictions |-> r.predictions, loss |-> r.loss]
    /\ lossCount' = lossCount + 1
    /\ updates' = Append(updates, "D")
    /\ pc' = "g_modes"
    /\ UNCHANGED <<dataLen, epoch, batchStart, real_images, fake_images, rng,
                   evals, call, ev, seen>>

\* discriminator.eval(); generator.train()
GeneratorModes(ns) == SetMode(SetMode(ns, "D", FALSE), "G", TRUE)

SetGeneratorModes ==
    /\ pc = "g_modes"
    /\ nets' = GeneratorModes(nets)
    /\ pc' = "g_step"
    /\ UNCHANGED <<dataLen, epoch, batchStart, real_images, fake_images, rng,
                   lossCount, updates, evals, dstep, call, ev, seen>>

\* generator_train_step(generator, discriminator, batch_size,
\*                      generator_optimizer, discriminator_optimizer)
GeneratorTrainStep ==
    /\ pc = "g_step"
    /\ LET r == generator_train_step(nets, "G", "D", batch_size, generator_optimizer,
                                     discriminator_optimizer, lossCount + 1)
       IN  /\ nets' = r.nets
           /\ rng' = rng + r.drawn
    /\ lossCount' = lossCount + 1
    /\ updates' = Append(updates, "G")
    /\ pc' = "batch_head"
    /\ UNCHANGED <<dataLen, epoch, batchStart, real_images, fake_images, evals,
                   dstep, call, ev, seen>>

\* evaluate(generator, discriminator, DataLoader(mnist_data, batch_size=2048));
\* the two accuracies it returns are printed and kept nowhere.
Evaluate ==
    /\ pc = "evaluate"
    /\ LET r == evaluate_effect(nets, rng, "G", "D", BatchLens(dataLen, EVAL_BATCH_SIZE))
       IN  /\ nets' = r.nets
           /\ rng' = r.rng
    /\ evals' = evals + 1
    /\ pc' = "post_eval"
    /\ UNCHANGED <<dataLen, epoch, batchStart, real_images, fake_images, lossCount,
                   updates, dstep, call, ev, seen>>

\* Mutant: the run stops after the first evaluation.
PostEvaluate_early_stop ==
    /\ pc = "post_eval"
    /\ nets' = Forward(SetMode(SetMode(nets, "G", FALSE), "D", FALSE), "G")
    /\ epoch' = epoch + 1
    /\ pc' = "done"
    /\ UNCHANGED <<dataLen, batchStart, real_images, fake_images, rng, lossCount,
                   updates, evals, dstep, call, ev, seen>>

\* generator.eval(); discriminator.eval(); the prints;
\* display_tensor(generator(test_noise)); then the next epoch.
PostEvaluate ==
    /\ pc = "post_eval"
    /\ nets' = Forward(SetMode(SetMode(nets, "G", FALSE), "D", FALSE), "G")
    /\ epoch' = epoch + 1
    /\ pc' = "epoch_head"
    /\ UNCHANGED <<dataLen, batchStart, real_images, fake_images, rng, lossCount,
                   updates, evals, dstep, call, ev, seen>>

Next ==
    \/ EpochHead
    \/ BatchHead
    \/ SetDiscriminatorModes
    \/ GenerateFake
    \/ DiscriminatorTrainStep
    \/ SetGeneratorModes
    \/ GeneratorTrainStep
    \/ Evaluate
    \/ PostEvaluate

Spec == Init /\ [][Next]_vars

\* The loop is one sequential thread: a step that can run does run.
LiveSpec == Spec /\ WF_vars(Next)

\* ------------------------------------------- the functions called on their own
\* Freshly constructed networks, no dataset, one function about to be called.
InitFn ==
    /\ pc = "fn"
    /\ dataLen = 0
    /\ epoch = 0
    /\ batchStart = 0
    /\ real_images = <<>>
    /\ fake_images = <<>>
    /\ nets = [n \in {"D", "G"} |-> create_network]
    /\ rng = 0
    /\ lossCount = 0
    /\ updates = <<>>
    /\ evals = 0
    /\ dstep = NoStep
    /\ call = NoCall
    /\ ev = NoEval
    /\ seen = NoneSeen

\* discriminator_train_step on r real images and f fake images, generated or
\* plain noise (cell 15 trains against torch.randn_like); a discriminator in
\* training mode needs two rows at least.
FnDiscriminatorTrainStep ==
    /\ pc = "fn"
    /\ \E r \in 0..MaxBatch, f \in 0..MaxBatch, kind \in {"gen", "noise"} :
          /\ r + f >= 2
          /\ LET reals == Minibatch(0, r, r)
                 fakes == IF kind = "gen" THEN Generated(f) ELSE Noise(f)
                 res == discriminator_train_step(nets, "D", reals, fakes,
                                                 discriminator_optimizer, lossCount + 1)
             IN  /\ nets' = res.nets
                 /\ dstep' = [images |-> res.images, labels |-> res.labels,
                              predictions |-> res.predictions, loss |-> res.loss]
                 /\ call' = [fn |-> "discriminator_train_step",
                             args |-> [real_images |-> reals, fake_images |-> fakes],
                             ret |-> res.loss]
    /\ lossCount' = lossCount + 1
    /\ updates' = Append(updates, "D")
    /\ pc' = "fn_done"
    /\ UNCHANGED <<dataLen, epoch, batchStart, real_images, fake_images, rng,
                   evals, ev, seen>>

FnUnchanged ==
    UNCHANGED <<dataLen, epoch, batchStart, real_images, fake_images, nets, rng,
                lossCount, updates, evals, dstep, ev, seen>>

\* The argument of the logarithm of discriminator_loss_fn, for one
\* prediction, one label and one epsilon.
FnDiscriminatorLogArg ==
    /\ pc = "fn"
    /\ \E p \in Floats01, l \in Floats01, epsilon \in EpsVals :
          call' = [fn |-> "discriminator_log_arg",
                   args |-> [prediction |-> p, label |-> l, epsilon |-> epsilon],
                   ret |-> discriminator_log_arg(p, l, epsilon)]
    /\ pc' = "fn_done"
    /\ FnUnchanged

\* The argument of the logarithm of generator_loss_fn.
FnGeneratorLogArg ==
    /\ pc = "fn"
    /\ \E p \in Floats01, epsilon \in EpsVals :
          call' = [fn |-> "generator_log_arg",
                   args |-> [prediction |-> p, epsilon |-> epsilon],
                   ret |-> generator_log_arg(p, epsilon)]
    /\ pc' = "fn_done"
    /\ FnUnchanged

FnDiscriminatorLoss ==
    /\ pc = "fn"
    /\ \E n \in 1..MaxBatch, epsilon \in EpsVals :
          \E predictions \in [1..n -> PredVals], labels \in [1..n -> PredVals] :
              call' = [fn |-> "discriminator_loss_fn",
                       args |-> [predictions |-> predictions, labels |-> labels,
                                 epsilon |-> epsilon],
                       ret |-> discriminator_loss_fn(predictions, labels, epsilon)]
    /\ pc' = "fn_done"
    /\ FnUnchanged

FnGeneratorLoss ==
    /\ pc = "fn"
    /\ \E n \in 1..MaxBatch, epsilon \in EpsVals :
          \E predictions \in [1..n -> PredVals] :
              call' = [fn |-> "generator_loss_fn",
                       args |-> [predictions |-> predictions, epsilon |-> epsilon],
                       ret |-> generator_loss_fn(predictions, epsilon)]
    /\ pc' = "fn_done"
    /\ FnUnchanged

\* One pass of evaluate's loop: a batch of n rows, with the discriminator's
\* predictions on it and on the images generated for it.
FnEvaluateBatch ==
    /\ pc \in {"fn", "eval_loop"}
    /\ ev.batches < MaxEvalBatches
    /\ \E n \in 1..MaxBatch :
          \E real_preds \in [1..n -> PredVals],
             generated_preds \in [1..NoiseRows(n) -> PredVals] :
              /\ ev' = evaluate_batch(ev, real_preds, generated_preds)
              /\ seen' = [seen EXCEPT
                    !["real"] = [v \in PredVals |->
                        @[v] + Cardinality({i \in 1..n : real_preds[i] = v})],
                    !["generated"] = [v \in PredVals |->
                        @[v] + Cardinality({i \in 1..NoiseRows(n) :
                                                generated_preds[i] = v})]]
              /\ LET r == evaluate_effect(nets, rng, "G", "D", <<NoiseRows(n)>>)
                 IN  /\ nets' = r.nets
                     /\ rng' = r.rng
    /\ pc' = "eval_loop"
    /\ UNCHANGED <<dataLen, epoch, batchStart, real_images, fake_images,
                   lossCount, updates, evals, dstep, call>>

\* The dataloader is exhausted: evaluate returns the two accuracies.
FnEvaluateReturn ==
    /\ pc = "eval_loop"
    /\ call' = [fn |-> "evaluate", ret |-> evaluate_return(ev)]
    /\ pc' = "fn_done"
    /\ FnUnchanged

NextFn ==
    \/ FnDiscriminatorTrainStep
    \/ FnDiscriminatorLogArg
    \/ FnGeneratorLogArg
    \/ FnDiscriminatorLoss
    \/ FnGeneratorLoss
    \/ FnEvaluateBatch
    \/ FnEvaluateReturn

SpecFn == InitFn /\ [][NextFn]_vars

\* ================================================================== claims
\* Minibatches per epoch, and minibatches the inner loop has yielded so far.
NumBatches == Len(BatchLens(dataLen, batch_size))
BatchesThisEpoch ==
    IF pc \in {"epoch_head", "done"} THEN 0
    ELSE Len(BatchLens(batchStart, batch_size))
MinibatchesStarted == epoch * NumBatches + BatchesThisEpoch
Count(log, x) == Cardinality({i \in 1..Len(log) : log[i] = x})

\* C1: every minibatch triggers exactly one discriminator step followed by
\* exactly one generator step: the log of optimizer steps is D, G, D, G, ...,
\* one D per minibatch started (once its step has run) and one G per
\* minibatch finished, and the discriminator steps equal the generator steps
\* or exceed them by one.
C1_StrictAlternation ==
    /\ \A i \in 1..Len(updates) : updates[i] = IF i % 2 = 1 THEN "D" ELSE "G"
    /\ Count(updates, "D") =
          MinibatchesStarted - (IF pc \in {"d_modes", "gen_fake", "d_step"} THEN 1 ELSE 0)
    /\ Count(updates, "G") =
          MinibatchesStarted -
             (IF pc \in {"d_modes", "gen_fake", "d_step", "g_modes", "g_step"} THEN 1 ELSE 0)
    /\ Count(updates, "D") - Count(updates, "G") \in {0, 1}

C1_Witness ==
    /\ pc = "g_modes"
    /\ epoch >= 1
    /\ Count(updates, "D") = Count(updates, "G") + 1
    /\ Count(updates, "G") >= 2

\* C2: when the fake batch is generated and when discriminator_train_step
\* runs, the discriminator is in training mode and the generator in
\* evaluation mode; when generator_train_step runs the modes are flipped.
C2_ModesPerStep ==
    /\ pc \in {"gen_fake", "d_step"} =>
          nets["D"].training /\ ~nets["G"].training
    /\ pc = "g_step" =>
          nets["G"].training /\ ~nets["D"].training

\* The first minibatch after an end-of-epoch evaluation, about to be stepped.
C2_Witness ==
    /\ pc = "d_step"
    /\ epoch >= 1
    /\ batchStart = Len(real_images)
    /\ nets["D"].training /\ ~nets["G"].training

\* C3: the generator's parameters change only in a generator_train_step and
\* the discriminator's only in a discriminator_train_step.
C3_OwnOptimizerOnly ==
    [][ /\ (nets'["G"].params # nets["G"].params => pc = "g_step")
        /\ (nets'["D"].params # nets["D"].params => pc = "d_step") ]_vars

\* A discriminator step has run, its backward pass left a gradient in the
\* generator's buffers, and the generator's parameters are one step behind.
C3_Witness ==
    /\ pc = "g_modes"
    /\ dstep.loss \in nets["G"].grad
    /\ nets["D"].params = nets["G"].params + 1
    /\ nets["G"].params >= 1

\* C4 (as claimed): the evaluate call leaves both networks and the random
\* number generator exactly as they were.
C4_EvaluateChangesNothing ==
    [][pc = "evaluate" => (nets' = nets /\ rng' = rng)]_vars

\* C5: evaluate runs once per epoch, after all the training steps of the
\* epoch and before any of the next, and the loop ends after NUM_EPOCHS
\* epochs with NUM_EPOCHS evaluations.
C5_Inv ==
    /\ epoch <= NUM_EPOCHS
    /\ evals = (IF pc = "post_eval" THEN epoch + 1 ELSE epoch)
    /\ Len(updates) >= 2 * NumBatches * evals
    /\ Len(updates) <= 2 * NumBatches * (evals + 1)
    /\ pc \in {"evaluate", "post_eval"} => Len(updates) = 2 * NumBatches * (epoch + 1)
    /\ pc = "done" => /\ evals = NUM_EPOCHS
                      /\ Len(updates) = 2 * NumBatches * NUM_EPOCHS

C5_EvaluateOncePerEpoch == [](C5_Inv) /\ <>(pc = "done")

C5_Witness ==
    /\ pc = "done"
    /\ evals = NUM_EPOCHS
    /\ NumBatches >= 2

\* C6 (as claimed): every discriminator step is taken on batch_size real
\* images and batch_size generated images.
C6_FullBatches ==
    pc = "d_step" =>
        /\ Len(real_images) = batch_size
        /\ Len(fake_images) = batch_size

\* C7: in discriminator_train_step on r real and f fake images, the combined
\* batch has r+f images, the real ones first; there are r+f labels; label i
\* is 1 exactly when image i is a real one and 0 exactly when it is a fake
\* one; prediction i, compared with label i, is the prediction for image i.
C7_LabelsMatchImages ==
    call.fn = "discriminator_train_step" =>
        LET reals == call.args.real_images
            fakes == call.args.fake_images
            r == Len(reals)
            f == Len(fakes)
        IN  /\ Len(dstep.images) = r + f
            /\ Len(dstep.labels) = r + f
            /\ Len(dstep.predictions) = r + f
            /\ \A i \in 1..(r + f) :
                  /\ dstep.images[i] = IF i <= r THEN reals[i] ELSE fakes[i - r]
                  /\ dstep.labels[i] \in {0, 1}
                  /\ dstep.labels[i] = 1 <=> dstep.images[i].src = "real"
                  /\ dstep.labels[i] = 0 <=> dstep.images[i].src \in {"gen", "noise"}
                  /\ dstep.predictions[i].pred_of = dstep.images[i]

C7_Witness ==
    /\ call.fn = "discriminator_train_step"
    /\ Len(call.args.real_images) = 1
    /\ Len(call.args.fake_images) = 2
    /\ dstep.labels = <<1, 0, 0>>

RECURSIVE SumOver(_, _)
SumOver(h, S) ==
    IF S = {} THEN 0
    ELSE LET v == CHOOSE x \in S : TRUE IN h[v] + SumOver(h, S \ {v})

C9_LogArgPositive ==
    /\ call.fn = "discriminator_log_arg" => call.ret > 0
    /\ call.fn = "generator_log_arg" => call.ret > 0

\* C9 (amended): the same for every epsilon of at least the spacing of the
\* tensors' floats at 1, the smallest epsilon that epsilon + 1 is sure to keep.
C9_LogArgPositive_FloatEps ==
    /\ (call.fn = "discriminator_log_arg" /\ call.args.epsilon >= Spacing(One))
          => call.ret > 0
    /\ call.fn = "generator_log_arg" => call.ret > 0

\* A prediction of exactly 1 for a label of 0, where only epsilon keeps the
\* argument from 0.
C9_Witness ==
    /\ call.fn = "discriminator_log_arg"
    /\ call.args.prediction = One
    /\ call.args.label = 0
    /\ call.args.epsilon = Spacing(One)
    /\ call.ret = Spacing(One)

\* C10 (as claimed): discriminator_loss_fn returns
\* -mean(log(epsilon + 1 - |prediction - label|)) with nothing added.
C10_LossIsNegMeanLog ==
    call.fn = "discriminator_loss_fn" =>
        call.ret = [neg_mean_log |->
                       [i \in 1..Len(call.args.predictions) |->
                           discriminator_log_arg(call.args.predictions[i],
                                                 call.args.labels[i],
                                                 call.args.epsilon)],
                    plus |-> 0]

\* The loss function each network is trained on.
OwnLoss(n) == IF n = "D" THEN "discriminator_loss_fn" ELSE "generator_loss_fn"

\* C11: whenever an optimizer step changes a network's parameters, the
\* gradient it applies is that of the loss of the current training step
\* alone: nothing the opposing network's loss left in the buffers is applied.
C11_NoStaleGradient ==
    [][ \A n \in {"D", "G"} :
          nets'[n].params # nets[n].params =>
              nets'[n].applied = {<<OwnLoss(n), lossCount'>>} ]_vars

\* A generator step has just run in a later epoch: the discriminator step
\* before it had left its loss's gradient in the generator's buffers, the
\* generator applied its own loss alone, and that loss's gradient now sits in
\* the discriminator's buffers.
C11_Witness ==
    /\ pc = "batch_head"
    /\ epoch >= 1
    /\ Len(updates) >= 4
    /\ updates[Len(updates)] = "G"
    /\ dstep.loss = <<"discriminator_loss_fn", lossCount - 1>>
    /\ nets["G"].applied = {<<"generator_loss_fn", lossCount>>}
    /\ nets["D"].applied = {dstep.loss}
    /\ nets["D"].grad = {<<"generator_loss_fn", lossCount>>}

====
